---- MODULE Spec2Model ----
(***************************************************************************)
(* A model of cfo_monitor.py: the CFOMonitor pipeline (regulatory feed,    *)
(* news feed, tear-sheet generation, report mail) and its pure text        *)
(* helpers.  Text is a sequence of one-character strings, so that the      *)
(* regular expressions and string methods operate on characters as they do *)
(* in the program.  Only ASCII characters are modelled.  A Finding keeps    *)
(* the fields the program decides with; its 'date' and the publisher name  *)
(* in its 'source' are copied from the feed and read by nothing, and are   *)
(* left out.                                                               *)
(***************************************************************************)
EXTENDS Integers, Sequences, FiniteSets, TLC

(***************************************************************************)
(* Characters and character classes                                        *)
(***************************************************************************)
Uppers == <<"A", "B", "C", "D", "E", "F", "G", "H", "I", "J", "K", "L", "M", "N", "O", "P", "Q", "R", "S", "T", "U", "V", "W", "X", "Y", "Z">>
Lowers == <<"a", "b", "c", "d", "e", "f", "g", "h", "i", "j", "k", "l", "m", "n", "o", "p", "q", "r", "s", "t", "u", "v", "w", "x", "y", "z">>
UpperSet == {Uppers[i] : i \in 1..26}
LowerSet == {Lowers[i] : i \in 1..26}
DigitSet == {"0", "1", "2", "3", "4", "5", "6", "7", "8", "9"}
\* \s of the re module, restricted to the modelled alphabet
SpaceSet == {" ", "\t", "\n"}
\* \w of the re module, restricted to ASCII
WordSet == UpperSet \cup LowerSet \cup DigitSet \cup {"_"}

IsUpper(c) == c \in UpperSet
IsLower(c) == c \in LowerSet
IsSpace(c) == c \in SpaceSet

\* str.lower() and str.upper() on one character
ToLower(c) == IF c \in UpperSet THEN Lowers[CHOOSE i \in 1..26 : Uppers[i] = c] ELSE c
ToUpper(c) == IF c \in LowerSet THEN Uppers[CHOOSE i \in 1..26 : Lowers[i] = c] ELSE c

\* str.lower()
LowerStr(s) == [i \in 1..Len(s) |-> ToLower(s[i])]

\* str.title(): a cased character is upper-cased when it follows an uncased
\* character (or starts the string) and lower-cased otherwise
TitleStr(s) ==
    [i \in 1..Len(s) |->
        IF i = 1 \/ ~(s[i-1] \in UpperSet \cup LowerSet)
        THEN ToUpper(s[i]) ELSE ToLower(s[i])]

\* s[:n]
Take(s, n) == SubSeq(s, 1, IF Len(s) < n THEN Len(s) ELSE n)

\* whether k occurs in s at position i
MatchAt(s, i, k) ==
    /\ i >= 1
    /\ i + Len(k) - 1 <= Len(s)
    /\ SubSeq(s, i, i + Len(k) - 1) = k

\* s.find(k) + 1: the first position where k occurs in s, 0 if none
Find(s, k) ==
    IF \E i \in 1..Len(s) : MatchAt(s, i, k)
    THEN CHOOSE i \in 1..Len(s) : MatchAt(s, i, k) /\ \A j \in 1..(i-1) : ~MatchAt(s, j, k)
    ELSE 0

\* "k in s" for a non-empty k
Contains(s, k) == Find(s, k) # 0

\* s.split(k)[0]: the text before the first occurrence of k, s itself if none
SplitFirst(s, k) == IF Contains(s, k) THEN SubSeq(s, 1, Find(s, k) - 1) ELSE s

\* str.strip(): drop leading and trailing whitespace
Strip(s) ==
    IF \A i \in 1..Len(s) : IsSpace(s[i]) THEN <<>>
    ELSE LET a == CHOOSE i \in 1..Len(s) : ~IsSpace(s[i]) /\ \A j \in 1..(i-1) : IsSpace(s[j])
             b == CHOOSE i \in 1..Len(s) : ~IsSpace(s[i]) /\ \A j \in (i+1)..Len(s) : IsSpace(s[j])
         IN SubSeq(s, a, b)

\* str.replace(a, b) for single characters
ReplaceChar(s, a, b) == [i \in 1..Len(s) |-> IF s[i] = a THEN b ELSE s[i]]

\* len(name.split()): the number of maximal runs of non-whitespace
WordCount(s) ==
    Cardinality({i \in 1..Len(s) : ~IsSpace(s[i]) /\ (i = 1 \/ IsSpace(s[i-1]))})

(***************************************************************************)
(* Words of the program text                                               *)
(***************************************************************************)
K_appoints == <<"a", "p", "p", "o", "i", "n", "t", "s">>
K_names == <<"n", "a", "m", "e", "s">>
K_hires == <<"h", "i", "r", "e", "s">>
K_welcomes == <<"w", "e", "l", "c", "o", "m", "e", "s">>
K_announces == <<"a", "n", "n", "o", "u", "n", "c", "e", "s">>
K_as == <<"a", "s">>
K_named == <<"n", "a", "m", "e", "d">>
K_appointed == <<"a", "p", "p", "o", "i", "n", "t", "e", "d">>
K_joins == <<"j", "o", "i", "n", "s">>
K_CFO == <<"C", "F", "O">>
K_cfo == <<"c", "f", "o">>
K_chief_financial_officer == <<"c", "h", "i", "e", "f", " ", "f", "i", "n", "a", "n", "c", "i", "a", "l", " ", "o", "f", "f", "i", "c", "e", "r">>
K_financial_officer == <<"f", "i", "n", "a", "n", "c", "i", "a", "l", " ", "o", "f", "f", "i", "c", "e", "r">>
ChiefFinancial == <<"C", "h", "i", "e", "f", " ", "F", "i", "n", "a", "n", "c", "i", "a", "l">>
FinancialOfficer == <<"F", "i", "n", "a", "n", "c", "i", "a", "l", " ", "O", "f", "f", "i", "c", "e", "r">>
CompanyInArticle == <<"C", "o", "m", "p", "a", "n", "y", " ", "i", "n", " ", "a", "r", "t", "i", "c", "l", "e">>
NotIdentified == <<"I", "n", "d", "i", "v", "i", "d", "u", "a", "l", " ", "n", "a", "m", "e", " ", "n", "o", "t", " ", "i", "d", "e", "n", "t", "i", "f", "i", "e", "d">>
NoneText == <<"N", "o", "n", "e">>

(***************************************************************************)
(* Optional values: None and a present value                               *)
(***************************************************************************)
None == [some |-> FALSE, val |-> <<>>]
Some(v) == [some |-> TRUE, val |-> v]

\* the truth value Python gives an optional string: None and '' are false
Truthy(o) == o.some /\ o.val # <<>>

(***************************************************************************)
(* _extract_company                                                        *)
(***************************************************************************)
CompanyKeywords == <<K_appoints, K_hires, K_names, K_announces, K_welcomes>>

RECURSIVE ExtractCompanyFrom(_, _)
\* the keyword loop of _extract_company, from keyword number k on
ExtractCompanyFrom(title, k) ==
    IF k > Len(CompanyKeywords) THEN CompanyInArticle
    ELSE LET low == LowerStr(title)
             kw == CompanyKeywords[k]
         IN IF Contains(low, kw) /\ SplitFirst(low, kw) # <<>>
            THEN TitleStr(Strip(SplitFirst(low, kw)))
            ELSE ExtractCompanyFrom(title, k + 1)

_extract_company(title) == ExtractCompanyFrom(title, 1)

(***************************************************************************)
(* _extract_individual_name                                                *)
(***************************************************************************)
RECURSIVE LowerRunEnd(_, _)
\* [a-z]* from position i: the last position of the run, i-1 if it is empty
LowerRunEnd(t, i) ==
    IF i <= Len(t) /\ IsLower(t[i]) THEN LowerRunEnd(t, i + 1) ELSE i - 1

RECURSIVE SpaceRunEnd(_, _)
\* \s* from position i: the last position of the run, i-1 if it is empty
SpaceRunEnd(t, i) ==
    IF i <= Len(t) /\ IsSpace(t[i]) THEN SpaceRunEnd(t, i + 1) ELSE i - 1

\* [A-Z][a-z]+ at position i: the last position matched, 0 if no match
WordEnd(t, i) ==
    IF i <= Len(t) /\ IsUpper(t[i])
    THEN LET e == LowerRunEnd(t, i + 1) IN IF e > i THEN e ELSE 0
    ELSE 0

RECURSIVE MoreWords(_, _)
\* (?:\s+[A-Z][a-z]+)* after position e, greedy: the last position matched
MoreWords(t, e) ==
    LET w == SpaceRunEnd(t, e + 1)
        n == WordEnd(t, w + 1)
    IN IF w > e /\ n # 0 THEN MoreWords(t, n) ELSE e

\* [A-Z][a-z]+(?:\s+[A-Z][a-z]+)+ at position i: the last position matched,
\* 0 if no match
NameEnd(t, i) ==
    LET e1 == WordEnd(t, i)
    IN IF e1 = 0 THEN 0
       ELSE LET e == MoreWords(t, e1) IN IF e > e1 THEN e ELSE 0

NoMatch == [matched |-> FALSE, group |-> <<>>]

\* (?:trigger|...)\s+(NAME) at position i: the position where NAME starts,
\* 0 if no match
NameAfterAt(t, i, triggers) ==
    IF \E k \in 1..Len(triggers) : MatchAt(t, i, triggers[k])
    THEN LET k == CHOOSE k \in 1..Len(triggers) : MatchAt(t, i, triggers[k])
             b == i + Len(triggers[k])
             w == SpaceRunEnd(t, b)
         IN IF w >= b /\ NameEnd(t, w + 1) # 0 THEN w + 1 ELSE 0
    ELSE 0

RECURSIVE SearchAfterFrom(_, _, _)
\* re.search of (?:trigger|...)\s+(NAME) tries the positions from left to
\* right: group 1 of the first match at position i or later
SearchAfterFrom(t, triggers, i) ==
    IF i > Len(t) THEN NoMatch
    ELSE LET b == NameAfterAt(t, i, triggers)
         IN IF b # 0
            THEN [matched |-> TRUE, group |-> SubSeq(t, b, NameEnd(t, b))]
            ELSE SearchAfterFrom(t, triggers, i + 1)

SearchAfter(t, triggers) == SearchAfterFrom(t, triggers, 1)

\* (NAME)\s+(?:trigger|...) at position i
NameBeforeAt(t, i, triggers) ==
    LET e == NameEnd(t, i)
        w == SpaceRunEnd(t, e + 1)
    IN /\ e # 0
       /\ w > e
       /\ \E k \in 1..Len(triggers) : MatchAt(t, w + 1, triggers[k])

RECURSIVE SearchBeforeFrom(_, _, _)
\* re.search of (NAME)\s+(?:trigger|...): group 1 of the first match at
\* position i or later
SearchBeforeFrom(t, triggers, i) ==
    IF i > Len(t) THEN NoMatch
    ELSE IF NameBeforeAt(t, i, triggers)
         THEN [matched |-> TRUE, group |-> SubSeq(t, i, NameEnd(t, i))]
         ELSE SearchBeforeFrom(t, triggers, i + 1)

SearchBefore(t, triggers) == SearchBeforeFrom(t, triggers, 1)

AfterVerbs == <<K_appoints, K_names, K_hires, K_welcomes>>
BeforeVerbs == <<K_as, K_named, K_appointed, K_joins>>
NumPatterns == 3

\* re.search(patterns[n], text)
PatternSearch(n, t) ==
    CASE n = 1 -> SearchAfter(t, AfterVerbs)
      [] n = 2 -> SearchBefore(t, BeforeVerbs)
      [] n = 3 -> SearchAfter(t, <<K_CFO>>)

\* the false positives the program filters out
FalsePositives == {ChiefFinancial, FinancialOfficer}

\* the filter on a candidate name
NameAccepted(name) == WordCount(name) >= 2 /\ name \notin FalsePositives

RECURSIVE ExtractNameFrom_FirstMatch(_, _)
\* the pattern loop returning None when the first match found is filtered out
ExtractNameFrom_FirstMatch(t, n) ==
    IF n > NumPatterns THEN None
    ELSE LET m == PatternSearch(n, t)
         IN IF m.matched
            THEN IF NameAccepted(Strip(m.group)) THEN Some(Strip(m.group)) ELSE None
            ELSE ExtractNameFrom_FirstMatch(t, n + 1)

RECURSIVE ExtractNameFrom(_, _)
\* the pattern loop of _extract_individual_name, from pattern number n on
ExtractNameFrom(t, n) ==
    IF n > NumPatterns THEN None
    ELSE LET m == PatternSearch(n, t)
         IN IF m.matched /\ NameAccepted(Strip(m.group))
            THEN Some(Strip(m.group))
            ELSE ExtractNameFrom(t, n + 1)

_extract_individual_name(title, summary) ==
    ExtractNameFrom(title \o <<" ">> \o summary, 1)

(***************************************************************************)
(* _sanitize_filename                                                      *)
(***************************************************************************)
FilenameCap == 50

\* the characters re.sub(r'[^\w\s-]', '', name) keeps
KeptChar(c) == c \in WordSet \cup SpaceSet \cup {"-"}

_sanitize_filename(name) ==
    Take(ReplaceChar(Strip(SelectSeq(name, KeptChar)), " ", "_"), FilenameCap)

(***************************************************************************)
(* The regulatory feed filter and company rule of search_sec_filings       *)
(***************************************************************************)
CfoKeywords == <<K_cfo, K_chief_financial_officer, K_financial_officer>>
SummaryCap == 300

\* any(keyword in text for keyword in cfo_keywords)
MentionsCfo(title, summary) ==
    \E k \in 1..Len(CfoKeywords) :
        Contains(LowerStr(title \o <<" ">> \o summary), CfoKeywords[k])

\* title.split('(')[0].strip() if '(' in title else title
SecCompany(title) ==
    IF Contains(title, <<"(">>) THEN Strip(SplitFirst(title, <<"(">>)) ELSE title

(***************************************************************************)
(* Bounds and inputs of a run                                              *)
(***************************************************************************)
\* the number of entries of the regulatory feed that a run examines
MaxSecEntries == 2
\* the number of distinct acceptable entries the two feeds hold in a run
MaxFindings == 2

\* len(search_queries)
NumQueries == 8
\* feed.entries[:5]
EntryCap == 5

Links == {"u1", "u2"}

SecTitle1 == <<"A", "c", "m", "e", " ", "(", "A", "C", "M", ")", " ", "C", "F", "O">>
SecTitle2 == <<"(", "A", "C", "M", ")", " ", "n", "a", "m", "e", "s", " ", "J", "a", "n", "e", " ", "S", "m", "i", "t", "h", " ", "C", "F", "O">>
SecTitle3 == <<"A", "c", "m", "e", " ", "(", "A", "C", "M", ")">>
SecSummary4 == <<"c", "f", "o", " ", "r", "e", "s", "i", "g", "n", "s">>

\* the entries the regulatory feed may hold: title, summary and link
SecFeedEntries ==
    {[title |-> SecTitle1, summary |-> <<>>, link |-> l] : l \in Links}
    \cup {[title |-> SecTitle2, summary |-> <<>>, link |-> l] : l \in Links}
    \cup {[title |-> SecTitle3, summary |-> <<>>, link |-> l] : l \in Links}
    \cup {[title |-> <<>>, summary |-> SecSummary4, link |-> l] : l \in Links}

NewsTitle1 == <<"A", "c", "m", "e", " ", "a", "p", "p", "o", "i", "n", "t", "s", " ", "J", "a", "n", "e", " ", "S", "m", "i", "t", "h", " ", "a", "s", " ", "C", "F", "O">>
NewsTitle2 == <<"N", "e", "w", " ", "C", "F", "O">>
NewsTitle3 == <<" ", "n", "a", "m", "e", "s", " ", "C", "h", "i", "e", "f", " ", "F", "i", "n", "a", "n", "c", "i", "a", "l", " ", "O", "f", "f", "i", "c", "e", "r">>

\* the entries a news feed may hold: title, link, and whether the entry has
\* a published time more than two days old
NewsFeedEntries ==
    [title : {NewsTitle1, NewsTitle2, NewsTitle3}, link : Links, stale : BOOLEAN]

\* the text a successful enrichment request returns
DocText == <<"*", "*", "X", "*", "*">>
\* what _generate_company_tear_sheet / _generate_individual_tear_sheet may
\* return: None on any failure, else the text of the response (maybe empty)
DocOutcomes == {None, Some(<<>>), Some(DocText)}

CompanySuffix == <<"_", "C", "o", "m", "p", "a", "n", "y", "_", "T", "e", "a", "r", "S", "h", "e", "e", "t", ".", "d", "o", "c", "x">>
IndividualSuffix == <<"_", "I", "n", "d", "i", "v", "i", "d", "u", "a", "l", "_", "T", "e", "a", "r", "S", "h", "e", "e", "t", ".", "d", "o", "c", "x">>

LiOpen == <<"<", "l", "i", ">", "<", "s", "t", "r", "o", "n", "g", ">">>
LiMid == <<"<", "/", "s", "t", "r", "o", "n", "g", ">", " ", "-", " ">>
LiClose == <<"<", "/", "l", "i", ">">>

(***************************************************************************)
(* State                                                                   *)
(***************************************************************************)
VARIABLES
    pc,                 \* the position of run() and of the method it is in
    anthropic_api_key,  \* whether self.anthropic_api_key is set (truthy)
    results,            \* self.results
    tear_sheets,        \* self.tear_sheets
    query,              \* the index of the news query being processed
    taken,              \* the number of entries of the current feed examined
    idx,                \* the index of the Finding generate_tear_sheets is at
    att,                \* the index of the tear sheet send_email is attaching
    msg,                \* the message send_email has built, None before
    api_calls,          \* the number of requests.post calls made
    smtp_calls,         \* the number of SMTP submissions attempted
    sent,               \* whether a submission succeeded
    requests,           \* the enrichment requests made, in order
    unpaced,            \* the services called since their last pacing sleep
    arg_title,          \* the title passed to _extract_individual_name
    arg_summary,        \* the summary passed to _extract_individual_name
    ret_individual,     \* what _extract_individual_name returned
    arg_name,           \* the name passed to _sanitize_filename
    ret_filename,       \* what _sanitize_filename returned
    ret_again           \* what _sanitize_filename returned for ret_filename

runVars == <<anthropic_api_key, results, tear_sheets, query, taken, idx,
             att, msg, api_calls, smtp_calls, sent, requests, unpaced>>
callVars == <<arg_title, arg_summary, ret_individual, arg_name, ret_filename,
              ret_again>>

(***************************************************************************)
(* search_sec_filings                                                      *)
(***************************************************************************)
\* the dict search_sec_filings builds for a kept entry
SecFinding(e) ==
    [source |-> "SEC EDGAR",
     company |-> SecCompany(e.title),
     title |-> e.title,
     summary |-> Take(e.summary, SummaryCap),
     url |-> e.link,
     individual |-> _extract_individual_name(e.title, e.summary)]

\* requests.get returns status 200 and the feed parses
SecFetchOk ==
    /\ pc = "sec_fetch"
    /\ pc' = "sec_loop"
    /\ taken' = 0
    /\ UNCHANGED <<anthropic_api_key, results, tear_sheets, query, idx, att,
                   msg, api_calls, smtp_calls, sent>>
    /\ UNCHANGED <<requests, unpaced>>
    /\ UNCHANGED callVars

\* requests.get raises, returns another status, or the parse raises: the
\* except clause prints and the method returns
SecFetchFail ==
    /\ pc = "sec_fetch"
    /\ pc' = "news_query"
    /\ query' = 1
    /\ UNCHANGED <<anthropic_api_key, results, tear_sheets, taken, idx, att,
                   msg, api_calls, smtp_calls, sent>>
    /\ UNCHANGED <<requests, unpaced>>
    /\ UNCHANGED callVars

\* one iteration of "for entry in feed.entries"
SecEntry(e) ==
    /\ pc = "sec_loop"
    /\ taken < MaxSecEntries
    /\ taken' = taken + 1
    /\ IF MentionsCfo(e.title, e.summary)
       THEN /\ Len(results) < MaxFindings
            /\ results' = Append(results, SecFinding(e))
       ELSE results' = results
    /\ UNCHANGED <<pc, anthropic_api_key, tear_sheets, query, idx, att, msg,
                   api_calls, smtp_calls, sent>>
    /\ UNCHANGED <<requests, unpaced>>
    /\ UNCHANGED callVars

\* the loop over the feed ends: the entries are used up, or an iteration
\* raises and the except clause prints; either way the method returns
SecEnd ==
    /\ pc = "sec_loop"
    /\ pc' = "news_query"
    /\ query' = 1
    /\ taken' = 0
    /\ UNCHANGED <<anthropic_api_key, results, tear_sheets, idx, att,
                   msg, api_calls, smtp_calls, sent>>
    /\ UNCHANGED <<requests, unpaced>>
    /\ UNCHANGED callVars

search_sec_filings ==
    \/ SecFetchOk
    \/ SecFetchFail
    \/ \E e \in SecFeedEntries : SecEntry(e)
    \/ SecEnd

(***************************************************************************)
(* search_news                                                             *)
(***************************************************************************)
\* the dict search_news builds for an accepted entry
NewsFinding(e) ==
    [source |-> "News",
     company |-> _extract_company(e.title),
     title |-> e.title,
     summary |-> <<>>,
     url |-> e.link,
     individual |-> _extract_individual_name(e.title, <<>>)]

\* the url test against the news Findings only
UrlSeen_NewsOnly(link) ==
    \E i \in 1..Len(results) : results[i].source = "News" /\ results[i].url = link

\* any(r.get('url') == link for r in self.results)
UrlSeen(link) == \E i \in 1..Len(results) : results[i].url = link

\* where search_news goes when the body of "for query" ends, normally or in
\* the except clause
NextQuery ==
    /\ query' = query + 1
    /\ taken' = 0
    /\ pc' = IF query = NumQueries THEN "generate" ELSE "news_query"

\* feedparser.parse(url) returns a feed
NewsFetchOk ==
    /\ pc = "news_query"
    /\ pc' = "news_sleep"
    /\ UNCHANGED <<anthropic_api_key, results, tear_sheets, query, taken, idx,
                   att, msg, api_calls, smtp_calls, sent>>
    /\ unpaced' = unpaced \cup {"news"}
    /\ UNCHANGED requests
    /\ UNCHANGED callVars

\* feedparser.parse(url) raises with the try around the loop instead of in
\* it: the remaining queries are skipped
NewsFetchFail_LeavesLoop ==
    /\ pc = "news_query"
    /\ query' = query + 1
    /\ taken' = 0
    /\ pc' = "generate"
    /\ UNCHANGED <<anthropic_api_key, results, tear_sheets, idx, att,
                   msg, api_calls, smtp_calls, sent>>
    /\ unpaced' = unpaced \cup {"news"}
    /\ UNCHANGED requests
    /\ UNCHANGED callVars

\* feedparser.parse(url) raises: the except clause prints, the loop goes on
NewsFetchFail ==
    /\ pc = "news_query"
    /\ NextQuery
    /\ UNCHANGED <<anthropic_api_key, results, tear_sheets, idx, att,
                   msg, api_calls, smtp_calls, sent>>
    /\ unpaced' = unpaced \cup {"news"}
    /\ UNCHANGED requests
    /\ UNCHANGED callVars

\* time.sleep(0.5)
NewsSleep ==
    /\ pc = "news_sleep"
    /\ pc' = "news_loop"
    /\ taken' = 0
    /\ UNCHANGED <<anthropic_api_key, results, tear_sheets, query, idx, att,
                   msg, api_calls, smtp_calls, sent>>
    /\ unpaced' = unpaced \ {"news"}
    /\ UNCHANGED requests
    /\ UNCHANGED callVars

\* one iteration of "for entry in feed.entries[:5]"
NewsEntry(e) ==
    /\ pc = "news_loop"
    /\ taken < EntryCap
    /\ taken' = taken + 1
    /\ IF e.stale \/ UrlSeen(e.link)
       THEN results' = results
       ELSE /\ Len(results) < MaxFindings
            /\ results' = Append(results, NewsFinding(e))
    /\ UNCHANGED <<pc, anthropic_api_key, tear_sheets, query, idx, att, msg,
                   api_calls, smtp_calls, sent>>
    /\ UNCHANGED <<requests, unpaced>>
    /\ UNCHANGED callVars

\* the loop over the feed ends: its first five entries are used up, or an
\* iteration raises (a malformed published_parsed or source) and the except
\* clause prints; either way the loop over the queries goes on
NewsFeedEnd ==
    /\ pc = "news_loop"
    /\ NextQuery
    /\ UNCHANGED <<anthropic_api_key, results, tear_sheets, idx, att,
                   msg, api_calls, smtp_calls, sent>>
    /\ UNCHANGED <<requests, unpaced>>
    /\ UNCHANGED callVars

search_news ==
    \/ NewsFetchOk
    \/ NewsFetchFail
    \/ NewsSleep
    \/ \E e \in NewsFeedEntries : NewsEntry(e)
    \/ NewsFeedEnd

(***************************************************************************)
(* generate_tear_sheets                                                    *)
(***************************************************************************)
\* what the prompt of _generate_company_tear_sheet is made from
CompanyRequest(r) ==
    [type |-> "company", company |-> r.company]

\* what the prompt of _generate_individual_tear_sheet is made from
IndividualRequest(r) ==
    [type |-> "individual", individual |-> r.individual.val, company |-> r.company]

CompanyTearSheet(r, doc) ==
    [type |-> "company",
     company |-> r.company,
     document |-> doc,
     filename |-> _sanitize_filename(r.company) \o CompanySuffix]

IndividualTearSheet(r, doc) ==
    [type |-> "individual",
     individual |-> r.individual.val,
     company |-> r.company,
     document |-> doc,
     filename |-> _sanitize_filename(r.individual.val) \o IndividualSuffix]

\* run(): "if self.results" is false, generate_tear_sheets is not called
GenerateNotCalled ==
    /\ pc = "generate"
    /\ results = <<>>
    /\ pc' = "send"
    /\ UNCHANGED <<anthropic_api_key, results, tear_sheets, query, taken, idx,
                   att, msg, api_calls, smtp_calls, sent>>
    /\ UNCHANGED <<requests, unpaced>>
    /\ UNCHANGED callVars

\* generate_tear_sheets without the API key test: the loop is entered
GenerateSkipped_NoKeyTest ==
    /\ pc = "generate"
    /\ results # <<>>
    /\ ~anthropic_api_key
    /\ pc' = "gen_company"
    /\ idx' = 1
    /\ UNCHANGED <<anthropic_api_key, results, tear_sheets, query, taken,
                   att, msg, api_calls, smtp_calls, sent>>
    /\ UNCHANGED <<requests, unpaced>>
    /\ UNCHANGED callVars

\* generate_tear_sheets without an API key: prints and returns
GenerateSkipped ==
    /\ pc = "generate"
    /\ results # <<>>
    /\ ~anthropic_api_key
    /\ pc' = "send"
    /\ UNCHANGED <<anthropic_api_key, results, tear_sheets, query, taken, idx,
                   att, msg, api_calls, smtp_calls, sent>>
    /\ UNCHANGED <<requests, unpaced>>
    /\ UNCHANGED callVars

\* generate_tear_sheets with an API key: enters the loop over self.results
GenerateStart ==
    /\ pc = "generate"
    /\ results # <<>>
    /\ anthropic_api_key
    /\ pc' = "gen_company"
    /\ idx' = 1
    /\ UNCHANGED <<anthropic_api_key, results, tear_sheets, query, taken,
                   att, msg, api_calls, smtp_calls, sent>>
    /\ UNCHANGED <<requests, unpaced>>
    /\ UNCHANGED callVars

\* the company attempt with the individual attempt made only after a
\* company tear sheet was produced
GenCompany_StopsOnFailure(doc) ==
    /\ pc = "gen_company"
    /\ api_calls' = api_calls + 1
    /\ tear_sheets' = IF Truthy(doc)
                      THEN Append(tear_sheets, CompanyTearSheet(results[idx], doc.val))
                      ELSE tear_sheets
    /\ pc' = IF Truthy(doc) /\ Truthy(results[idx].individual)
             THEN "gen_individual" ELSE "gen_sleep"
    /\ UNCHANGED <<anthropic_api_key, results, query, taken, idx, att, msg,
                   smtp_calls, sent>>
    /\ requests' = Append(requests, CompanyRequest(results[idx]))
    /\ unpaced' = unpaced \cup {"api"}
    /\ UNCHANGED callVars

\* _generate_company_tear_sheet(result) returns doc, and the tear sheet is
\* appended if doc is truthy
GenCompany(doc) ==
    /\ pc = "gen_company"
    /\ api_calls' = api_calls + 1
    /\ tear_sheets' = IF Truthy(doc)
                      THEN Append(tear_sheets, CompanyTearSheet(results[idx], doc.val))
                      ELSE tear_sheets
    /\ pc' = IF Truthy(results[idx].individual) THEN "gen_individual" ELSE "gen_sleep"
    /\ UNCHANGED <<anthropic_api_key, results, query, taken, idx, att, msg,
                   smtp_calls, sent>>
    /\ requests' = Append(requests, CompanyRequest(results[idx]))
    /\ unpaced' = unpaced \cup {"api"}
    /\ UNCHANGED callVars

\* _generate_individual_tear_sheet(result) returns doc
GenIndividual(doc) ==
    /\ pc = "gen_individual"
    /\ api_calls' = api_calls + 1
    /\ tear_sheets' = IF Truthy(doc)
                      THEN Append(tear_sheets, IndividualTearSheet(results[idx], doc.val))
                      ELSE tear_sheets
    /\ pc' = "gen_sleep"
    /\ UNCHANGED <<anthropic_api_key, results, query, taken, idx, att, msg,
                   smtp_calls, sent>>
    /\ requests' = Append(requests, IndividualRequest(results[idx]))
    /\ unpaced' = unpaced \cup {"api"}
    /\ UNCHANGED callVars

\* time.sleep(2), then the next Finding or the end of the loop
GenSleep ==
    /\ pc = "gen_sleep"
    /\ idx' = idx + 1
    /\ pc' = IF idx = Len(results) THEN "send" ELSE "gen_company"
    /\ UNCHANGED <<anthropic_api_key, results, tear_sheets, query, taken, att,
                   msg, api_calls, smtp_calls, sent>>
    /\ unpaced' = unpaced \ {"api"}
    /\ UNCHANGED requests
    /\ UNCHANGED callVars

generate_tear_sheets ==
    \/ GenerateNotCalled
    \/ GenerateSkipped
    \/ GenerateStart
    \/ \E doc \in DocOutcomes : GenCompany(doc)
    \/ \E doc \in DocOutcomes : GenIndividual(doc)
    \/ GenSleep

(***************************************************************************)
(* _create_email_body and send_email                                       *)
(***************************************************************************)
\* dict.get(key, default)
DictGet(d, key, default) == IF key \in DOMAIN d THEN d[key] ELSE default

\* how an f-string renders an optional string
Format(o) == IF o.some THEN o.val ELSE NoneText

\* the <li> line _create_email_body writes for a Finding
BodyLine(r) ==
    LiOpen \o r.company \o LiMid
        \o Format(DictGet(r, "individual", Some(NotIdentified))) \o LiClose

_create_email_body ==
    [total |-> Len(results),
     num_companies |-> Cardinality({results[i].company : i \in 1..Len(results)}),
     num_sec |-> Cardinality({i \in 1..Len(results) : results[i].source = "SEC EDGAR"}),
     num_news |-> Cardinality({i \in 1..Len(results) : results[i].source = "News"}),
     num_tear_sheets |-> Len(tear_sheets),
     lines |-> [i \in 1..Len(results) |-> BodyLine(results[i])]]

\* send_email without the early return: an empty report is built and sent
SendNothing_NoReturn ==
    /\ pc = "send"
    /\ results = <<>>
    /\ msg' = Some([body |-> _create_email_body, attachments |-> <<>>])
    /\ pc' = "smtp"
    /\ UNCHANGED <<anthropic_api_key, results, tear_sheets, query, taken, idx,
                   att, api_calls, smtp_calls, sent>>
    /\ UNCHANGED <<requests, unpaced>>
    /\ UNCHANGED callVars

\* send_email with no results: prints and returns
SendNothing ==
    /\ pc = "send"
    /\ results = <<>>
    /\ pc' = "done"
    /\ UNCHANGED <<anthropic_api_key, results, tear_sheets, query, taken, idx,
                   att, msg, api_calls, smtp_calls, sent>>
    /\ UNCHANGED <<requests, unpaced>>
    /\ UNCHANGED callVars

\* send_email builds the message and its body
SendBuild ==
    /\ pc = "send"
    /\ results # <<>>
    /\ msg' = Some([body |-> _create_email_body, attachments |-> <<>>])
    /\ att' = 1
    /\ pc' = IF tear_sheets = <<>> THEN "smtp" ELSE "attach"
    /\ UNCHANGED <<anthropic_api_key, results, tear_sheets, query, taken, idx,
                   api_calls, smtp_calls, sent>>
    /\ UNCHANGED <<requests, unpaced>>
    /\ UNCHANGED callVars

\* one iteration of "for tear_sheet in self.tear_sheets": the document is
\* rendered and attached, or something raises and the except clause prints
SendAttach(ok) ==
    /\ pc = "attach"
    /\ msg' = IF ok
              THEN Some([msg.val EXCEPT !.attachments =
                             Append(@, tear_sheets[att].filename)])
              ELSE msg
    /\ att' = att + 1
    /\ pc' = IF att = Len(tear_sheets) THEN "smtp" ELSE "attach"
    /\ UNCHANGED <<anthropic_api_key, results, tear_sheets, query, taken, idx,
                   api_calls, smtp_calls, sent>>
    /\ UNCHANGED <<requests, unpaced>>
    /\ UNCHANGED callVars

\* the SMTP session: connect, login and send_message, or an exception that
\* the except clause prints
SendSubmit(ok) ==
    /\ pc = "smtp"
    /\ smtp_calls' = smtp_calls + 1
    /\ sent' = ok
    /\ pc' = "done"
    /\ UNCHANGED <<anthropic_api_key, results, tear_sheets, query, taken, idx,
                   att, msg, api_calls>>
    /\ UNCHANGED <<requests, unpaced>>
    /\ UNCHANGED callVars

send_email ==
    \/ SendNothing
    \/ SendBuild
    \/ \E ok \in BOOLEAN : SendAttach(ok)
    \/ \E ok \in BOOLEAN : SendSubmit(ok)

(***************************************************************************)
(* run                                                                     *)
(***************************************************************************)
\* CFOMonitor.__init__
Construct ==
    /\ results = <<>>
    /\ tear_sheets = <<>>
    /\ query = 0
    /\ taken = 0
    /\ idx = 0
    /\ att = 0
    /\ msg = None
    /\ api_calls = 0
    /\ smtp_calls = 0
    /\ sent = FALSE
    /\ requests = <<>>
    /\ unpaced = {}

NoCall ==
    /\ arg_title = <<>>
    /\ arg_summary = <<>>
    /\ ret_individual = None
    /\ arg_name = <<>>
    /\ ret_filename = <<>>
    /\ ret_again = <<>>

\* the monitor is constructed, with or without an API key, and run() starts
Init ==
    /\ pc = "sec_fetch"
    /\ anthropic_api_key \in BOOLEAN
    /\ Construct
    /\ NoCall

run ==
    \/ search_sec_filings
    \/ search_news
    \/ generate_tear_sheets
    \/ send_email

Next == run

vars == <<pc, runVars, callVars>>

Spec == Init /\ [][Next]_vars

\* run() is sequential code: whenever it has a next step, it takes one
FairSpec == Spec /\ WF_vars(Next)

(***************************************************************************)
(* _extract_individual_name called on its own, on texts made of the words  *)
(* the patterns react to                                                   *)
(***************************************************************************)
\* the number of words of a title after its subject
MaxTitleWords == 4

Chief == <<"C", "h", "i", "e", "f">>
Financial == <<"F", "i", "n", "a", "n", "c", "i", "a", "l">>
Officer == <<"O", "f", "f", "i", "c", "e", "r">>
ChiefFinancialOfficer == <<"C", "h", "i", "e", "f", " ", "F", "i", "n", "a", "n", "c", "i", "a", "l", " ", "O", "f", "f", "i", "c", "e", "r">>
JaneSmith == <<"J", "a", "n", "e", " ", "S", "m", "i", "t", "h">>
Acme == <<"A", "c", "m", "e">>

TitleWords == {K_names, K_as, K_CFO, Chief, Financial, Officer, JaneSmith}
\* a title starts with a company name or with none
Subjects == {<<>>, <<Acme>>}

RECURSIVE JoinWords(_)
\* the words of ws, separated by single spaces
JoinWords(ws) ==
    IF ws = <<>> THEN <<>>
    ELSE IF Len(ws) = 1 THEN ws[1]
    ELSE ws[1] \o <<" ">> \o JoinWords(Tail(ws))

Titles ==
    {JoinWords(subject \o ws) :
        subject \in Subjects,
        ws \in UNION {[1..n -> TitleWords] : n \in 0..MaxTitleWords}}
Summaries == {<<>>, K_CFO \o <<" ">> \o JaneSmith}

InitExtract ==
    /\ pc = "extract"
    /\ anthropic_api_key = FALSE
    /\ Construct
    /\ arg_title \in Titles
    /\ arg_summary \in Summaries
    /\ ret_individual = None
    /\ arg_name = <<>>
    /\ ret_filename = <<>>
    /\ ret_again = <<>>

\* the call _extract_individual_name(title, summary)
CallExtract ==
    /\ pc = "extract"
    /\ ret_individual' = _extract_individual_name(arg_title, arg_summary)
    /\ pc' = "extracted"
    /\ UNCHANGED <<runVars, arg_title, arg_summary, arg_name, ret_filename, ret_again>>

NextExtract == CallExtract

SpecExtract == InitExtract /\ [][NextExtract]_vars

(***************************************************************************)
(* _sanitize_filename called on its own, and again on its own result       *)
(***************************************************************************)
\* the number of characters before and after the run of letters of a name
MaxAffix == 2

NameChars == {"a", " ", "\t", "!", "-"}
Affixes == UNION {[1..n -> NameChars] : n \in 0..MaxAffix}
\* the lengths of the run of letters: names shorter than, as long as and
\* longer than the cap
FillLengths == {0, FilenameCap - 3, FilenameCap - 2, FilenameCap - 1, FilenameCap}
Fill(n) == [i \in 1..n |-> "b"]

InitSanitize ==
    /\ pc = "sanitize"
    /\ anthropic_api_key = FALSE
    /\ Construct
    /\ arg_title = <<>>
    /\ arg_summary = <<>>
    /\ ret_individual = None
    /\ \E h \in Affixes, n \in FillLengths, t \in Affixes : arg_name = h \o Fill(n) \o t
    /\ ret_filename = <<>>
    /\ ret_again = <<>>

\* the call _sanitize_filename(name)
CallSanitize ==
    /\ pc = "sanitize"
    /\ ret_filename' = _sanitize_filename(arg_name)
    /\ pc' = "sanitized"
    /\ UNCHANGED <<runVars, arg_title, arg_summary, ret_individual, arg_name, ret_again>>

\* the call _sanitize_filename(ret_filename)
CallSanitizeAgain ==
    /\ pc = "sanitized"
    /\ ret_again' = _sanitize_filename(ret_filename)
    /\ pc' = "resanitized"
    /\ UNCHANGED <<runVars, arg_title, arg_summary, ret_individual, arg_name, ret_filename>>

NextSanitize == CallSanitize \/ CallSanitizeAgain

SpecSanitize == InitSanitize /\ [][NextSanitize]_vars

(***************************************************************************)
(* Properties of a run                                                     *)
(***************************************************************************)
Urls == {results[i].url : i \in 1..Len(results)}

IsPrefix(a, b) == Len(a) <= Len(b) /\ SubSeq(b, 1, Len(a)) = a

\* C1: no two Findings of the results list have the same url
UniqueUrls ==
    \A i, j \in 1..Len(results) : i # j => results[i].url # results[j].url

\* C2: the mailer is invoked if and only if a Finding was collected: with no
\* Finding no message is built, no submission and no enrichment request are
\* made; with a Finding the finished run has made exactly one submission
MailedIffFindings ==
    /\ smtp_calls <= 1
    /\ results = <<>> => msg = None /\ smtp_calls = 0 /\ api_calls = 0
    /\ pc = "done" /\ results # <<>> => msg.some /\ smtp_calls = 1

\* a finished run that mailed although every enrichment request it made failed
MailedAfterFailures ==
    /\ pc = "done"
    /\ smtp_calls = 1
    /\ api_calls >= 2
    /\ tear_sheets = <<>>

\* C3: without an API key no enrichment request is made and the tear-sheet
\* list stays empty, and the finished run has still built and submitted the
\* report of its Findings
NoKeyNoEnrichment ==
    ~anthropic_api_key =>
        /\ api_calls = 0
        /\ tear_sheets = <<>>
        /\ pc \notin {"gen_company", "gen_individual", "gen_sleep"}
        /\ pc = "done" /\ results # <<>> =>
              /\ msg.some
              /\ msg.val.body.total = Len(results)
              /\ msg.val.body.num_tear_sheets = 0
              /\ smtp_calls = 1

\* a finished run without an API key that mailed its Findings
NoKeyMailed ==
    /\ ~anthropic_api_key
    /\ pc = "done"
    /\ Len(results) >= 2
    /\ smtp_calls = 1

\* the order of the stages of run()
Stage(p) ==
    CASE p \in {"sec_fetch", "sec_loop"} -> 1
      [] p \in {"news_query", "news_sleep", "news_loop"} -> 2
      [] p \in {"generate", "gen_company", "gen_individual", "gen_sleep"} -> 3
      [] p \in {"send", "attach", "smtp"} -> 4
      [] p = "done" -> 5

\* what a finished run has gone through
Completed ==
    /\ query = NumQueries + 1
    /\ results # <<>> /\ anthropic_api_key =>
          idx = Len(results) + 1 /\ api_calls >= Len(results)
    /\ results # <<>> =>
          /\ msg.some
          /\ tear_sheets # <<>> => att = Len(tear_sheets) + 1
          /\ smtp_calls = 1

\* a step keeps what was collected and moves forward one query, one
\* Finding, one tear sheet at a time
KeepsAndAdvances ==
    /\ IsPrefix(results, results')
    /\ IsPrefix(tear_sheets, tear_sheets')
    /\ Stage(pc') >= Stage(pc)
    /\ query' \in {query, query + 1}
    /\ idx' \in {idx, idx + 1}
    /\ att' \in {att, att + 1}

\* C4: no failure at an external boundary stops the run: it reaches its end,
\* having gone through every news query, every Finding and every stage in
\* order, and nothing collected is ever dropped
RunNeverStops ==
    /\ <>(pc = "done")
    /\ [](pc = "done" => Completed)
    /\ [][KeepsAndAdvances]_vars

\* a finished run in which an enrichment request, an attachment and the
\* submission failed
FinishedDespiteFailures ==
    /\ pc = "done"
    /\ results # <<>>
    /\ tear_sheets # <<>>
    /\ api_calls > Len(tear_sheets)
    /\ Len(msg.val.attachments) < Len(tear_sheets)
    /\ smtp_calls = 1
    /\ ~sent

\* C5: every Finding of the results list has a non-empty company
CompanyNeverEmpty ==
    \A i \in 1..Len(results) : results[i].company # <<>>

\* C9: the report body has one list line per Finding, in collection order,
\* and the line of a Finding without individual shows the placeholder
BodyShowsPlaceholder ==
    msg.some =>
        /\ Len(msg.val.body.lines) = Len(results)
        /\ \A i \in 1..Len(results) :
              msg.val.body.lines[i] =
                  LiOpen \o results[i].company \o LiMid
                      \o (IF results[i].individual.some
                          THEN results[i].individual.val ELSE NotIdentified)
                      \o LiClose

\* C10: search_news appends an entry only if its link is the url of no
\* Finding already in the results list, one entry at a time
NewsNeverDuplicates ==
    [][pc = "news_loop" /\ results' # results =>
          /\ Len(results') = Len(results) + 1
          /\ IsPrefix(results, results')
          /\ results'[Len(results')].source = "News"
          /\ results'[Len(results')].url \notin Urls]_vars

\* search_news is past its first query, with a regulatory Finding and a news
\* Finding collected
NewsAfterRegulatory ==
    /\ pc = "news_loop"
    /\ query >= 2
    /\ taken >= 2
    /\ Len(results) = 2
    /\ results[1].source = "SEC EDGAR"
    /\ results[2].source = "News"

\* the requests one Finding calls for: one for its company and, when its
\* individual is present, one for the individual after it
WantedFor(r) ==
    <<[type |-> "company", company |-> r.company]>>
    \o (IF r.individual.some /\ r.individual.val # <<>>
        THEN <<[type |-> "individual", individual |-> r.individual.val,
                company |-> r.company]>>
        ELSE <<>>)

RECURSIVE WantedUpTo(_)
\* the requests the first n Findings call for, in collection order
WantedUpTo(n) == IF n = 0 THEN <<>> ELSE WantedUpTo(n - 1) \o WantedFor(results[n])

\* what a tear sheet is about
SheetSubject(ts) ==
    IF ts.type = "company"
    THEN [type |-> "company", company |-> ts.company]
    ELSE [type |-> "individual", individual |-> ts.individual, company |-> ts.company]

RECURSIVE IsSubsequence(_, _)
\* a is b with some elements left out
IsSubsequence(a, b) ==
    IF a = <<>> THEN TRUE
    ELSE IF b = <<>> THEN FALSE
    ELSE IF Head(a) = Head(b) THEN IsSubsequence(Tail(a), Tail(b))
    ELSE IsSubsequence(a, Tail(b))

\* the requests made so far are those of the Findings gone through, each
\* made once, and the tear sheets are answers to them in the same order
RequestsAsWanted ==
    /\ pc \in {"sec_fetch", "sec_loop", "news_query", "news_sleep", "news_loop",
               "generate"} => requests = <<>>
    /\ pc = "gen_company" => requests = WantedUpTo(idx - 1)
    /\ pc = "gen_individual" =>
          /\ results[idx].individual.some
          /\ requests = WantedUpTo(idx - 1)
                \o <<[type |-> "company", company |-> results[idx].company]>>
    /\ pc = "gen_sleep" => requests = WantedUpTo(idx)
    /\ pc \in {"send", "attach", "smtp", "done"} =>
          requests = IF anthropic_api_key THEN WantedUpTo(Len(results)) ELSE <<>>
    /\ IsSubsequence([i \in 1..Len(tear_sheets) |-> SheetSubject(tear_sheets[i])],
                     requests)

\* a step of the enrichment leaves the Findings alone, and adds a tear sheet
\* only as the answer to the request it makes
EnrichmentStep ==
    /\ Stage(pc) = 3 => results' = results
    /\ tear_sheets' # tear_sheets =>
          /\ Len(requests') = Len(requests) + 1
          /\ Len(tear_sheets') = Len(tear_sheets) + 1
          /\ IsPrefix(tear_sheets, tear_sheets')
          /\ SheetSubject(tear_sheets'[Len(tear_sheets')]) = requests'[Len(requests')]

\* C11: with an API key, generate_tear_sheets goes through the Findings in
\* collection order and makes for each one company request and, exactly when
\* the individual is present, one individual request after it, whatever the
\* company request returned; a failed request adds no tear sheet and is not
\* repeated, and the Findings are left unchanged
EnrichmentInOrder ==
    /\ []RequestsAsWanted
    /\ [][EnrichmentStep]_vars

\* a finished run in which the company request of the first Finding failed
\* and its individual request produced the first tear sheet
IndividualAfterFailedCompany ==
    /\ pc = "done"
    /\ anthropic_api_key
    /\ Len(requests) >= 2
    /\ requests[1].type = "company"
    /\ requests[2].type = "individual"
    /\ tear_sheets # <<>>
    /\ tear_sheets[1].type = "individual"

\* C12: the pacing sleeps are unconditional: whenever a news query or an
\* enrichment request is about to be made, the pause of that service has
\* been taken since the previous call to it
CallsArePaced ==
    /\ pc = "news_query" => "news" \notin unpaced
    /\ pc \in {"gen_company", "gen_individual"} => "api" \notin unpaced

(***************************************************************************)
(* Properties of _extract_individual_name                                  *)
(***************************************************************************)
\* the names made of the words of the job title only
JobTitleWords == {Chief, Financial, Officer}
JobTitleRuns ==
    {JoinWords(ws) : ws \in UNION {[1..n -> JobTitleWords] : n \in 2..3}}

\* C6: _extract_individual_name never returns a fragment of the job title
NeverJobTitle ==
    pc = "extracted" =>
        ~(ret_individual.some /\ ret_individual.val \in JobTitleRuns)

\* the first matches of the three patterns in the text of the call
Match1 == SearchAfter(arg_title \o <<" ">> \o arg_summary, <<K_appoints, K_names, K_hires, K_welcomes>>)
Match2 == SearchBefore(arg_title \o <<" ">> \o arg_summary, <<K_as, K_named, K_appointed, K_joins>>)
Match3 == SearchAfter(arg_title \o <<" ">> \o arg_summary, <<K_CFO>>)

Passes(m) == m.matched /\ m.group \notin {ChiefFinancial, FinancialOfficer}
Decides(m) == IF Passes(m) THEN Some(m.group) ELSE None

\* C7 as stated: the first pattern that matches decides the result alone
FirstMatchDecides ==
    pc = "extracted" =>
        ret_individual =
            IF Match1.matched THEN Decides(Match1)
            ELSE IF Match2.matched THEN Decides(Match2)
            ELSE Decides(Match3)

\* C7: the patterns are applied in the order 1, 2, 3 and the first pattern
\* whose first match passes the false-positive filter decides the result;
\* the result is absent when no pattern has such a match
FirstAcceptedDecides ==
    pc = "extracted" =>
        ret_individual =
            IF Passes(Match1) THEN Some(Match1.group)
            ELSE IF Passes(Match2) THEN Some(Match2.group)
            ELSE Decides(Match3)

\* pattern 1 matched a false positive and the name came from pattern 3
FellThroughToThird ==
    /\ pc = "extracted"
    /\ Match1.matched
    /\ ~Passes(Match1)
    /\ ~Match2.matched
    /\ ret_individual = Some(JaneSmith)

(***************************************************************************)
(* Properties of _sanitize_filename                                        *)
(***************************************************************************)
\* C8: _sanitize_filename is idempotent, its result has at most 50
\* characters, all of them word characters or hyphens
SanitizeIdempotentClean ==
    pc = "resanitized" =>
        /\ ret_again = ret_filename
        /\ Len(ret_filename) <= FilenameCap
        /\ \A i \in 1..Len(ret_filename) : ret_filename[i] \in WordSet \cup {"-"}
====
